---- MODULE Spec2Model ----
(***************************************************************************)
(* Model of searches/binary_search.py: binary_search,                      *)
(* binary_search_with_bounds, exponential_search and interpolation_search. *)
(* One call is one behaviour: Init draws the arguments, one action per     *)
(* function entry and one per loop iteration, until pc is "done" (the call *)
(* returned `result`) or "raised" (the call raised an exception).          *)
(***************************************************************************)
EXTENDS Integers, Sequences, FiniteSets

\* Longest list drawn for a call, and the number of dense element values:
\* elements are 0..NumDense-1 or the outlier NumDense^2, so that value
\* distributions can be strongly non-uniform.
MaxLen == 4
NumDense == 2

VARIABLES
    fn,                 \* the function called
    sorted_collection,  \* its list argument (a TLA+ sequence, 1-based)
    item,               \* its item argument
    argLeft,            \* binary_search_with_bounds: the left argument
    argRight,           \* binary_search_with_bounds: <<>> for None, <<r>> for r
    pc,                 \* position of the call
    left, right,        \* the cursors of the running loop
    bound,              \* exponential_search: the probe index
    low, high,          \* the range the running bisection/interpolation loop started with
    result,             \* the returned value, meaningful when pc = "done"
    reads,              \* the indices i of every sorted_collection[i] evaluated so far
    divisors            \* the divisors of every division evaluated so far

vars == <<fn, sorted_collection, item, argLeft, argRight, pc, left, right,
          bound, low, high, result, reads, divisors>>

Functions == {"binary_search", "binary_search_with_bounds",
              "exponential_search", "interpolation_search"}

Outlier == NumDense * NumDense
Values == 0..(NumDense - 1) \cup {Outlier}
\* items: every element value, and one value no element has
Items == Values \cup {NumDense}
Collections == UNION {[1..n -> Values] : n \in 0..MaxLen}

\* ------------------------------------------------------------------------
\* Python primitives

\* len(S) as used by the 0-based code
Length(S) == Len(S)

\* S[i] raises IndexError unless -len(S) <= i < len(S)
InBounds(S, i) == -Len(S) <= i /\ i < Len(S)

\* S[i] for a list: a negative i counts from the end
GetItem(S, i) == IF i >= 0 THEN S[i + 1] ELSE S[Len(S) + i + 1]

\* n >> 1 and n << 1 on Python integers (>> floors, also for negative n)
RShift1(n) == n \div 2
LShift1(n) == n * 2

Min(a, b) == IF a <= b THEN a ELSE b
Max(a, b) == IF a >= b THEN a ELSE b
Abs(a) == IF a >= 0 THEN a ELSE -a

\* int(a / b) for b # 0: the quotient truncated toward zero
\* (a / b is exact enough for the small integers drawn here)
IntTrueDiv(a, b) ==
    IF (a >= 0) = (b > 0) THEN Abs(a) \div Abs(b) ELSE -(Abs(a) \div Abs(b))

Sorted(S) == \A i \in 1..(Len(S) - 1) : S[i] <= S[i + 1]

\* Outcome of one loop iteration: the loop goes on with new cursors, the call
\* returns v, or the call raises; rd are the indices read, dv the divisors used.
Continue(l, r, rd, dv) ==
    [kind |-> "loop", left |-> l, right |-> r, result |-> 0, reads |-> rd, divs |-> dv]
Return(l, r, v, rd, dv) ==
    [kind |-> "done", left |-> l, right |-> r, result |-> v, reads |-> rd, divs |-> dv]
Raise(l, r, rd, dv) ==
    [kind |-> "raised", left |-> l, right |-> r, result |-> 0, reads |-> rd, divs |-> dv]

\* ------------------------------------------------------------------------
\* binary_search

\* mid = left + ((right - left) >> 1)
binary_search_mid(l, r) == l + RShift1(r - l)

\* mid_value < item decides which half is kept
binary_search_goes_right_flawed(mid_value, x) == mid_value > x
binary_search_goes_right(mid_value, x) == mid_value < x

\* one evaluation of the while condition and, if it holds, of the loop body
binary_search_iter(S, x, l, r) ==
    IF ~(l <= r) THEN Return(l, r, -1, {}, {})
    ELSE LET mid == binary_search_mid(l, r) IN
         IF ~InBounds(S, mid) THEN Raise(l, r, {mid}, {})
         ELSE LET mid_value == GetItem(S, mid) IN
              IF mid_value = x THEN Return(l, r, mid, {mid}, {})
              ELSE IF binary_search_goes_right(mid_value, x)
                   THEN Continue(mid + 1, r, {mid}, {})
                   ELSE Continue(l, mid - 1, {mid}, {})

RECURSIVE binary_search_run(_, _, _, _)
binary_search_run(S, x, l, r) ==
    LET o == binary_search_iter(S, x, l, r) IN
    IF o.kind = "loop" THEN binary_search_run(S, x, o.left, o.right)
    ELSE o.result

\* the value binary_search(S, x) returns
binary_search(S, x) == binary_search_run(S, x, 0, Length(S) - 1)

\* ------------------------------------------------------------------------
\* binary_search_with_bounds

\* if right is None: right = len(sorted_collection) - 1
binary_search_with_bounds_right_flawed(S, r) ==
    IF r = <<>> \/ r = <<0>> THEN Length(S) - 1 ELSE r[1]
binary_search_with_bounds_right(S, r) ==
    IF r = <<>> THEN Length(S) - 1 ELSE r[1]

\* mid = left + ((right - left) >> 1)
binary_search_with_bounds_mid_flawed(l, r) == RShift1(r - l)
binary_search_with_bounds_mid(l, r) == l + RShift1(r - l)

\* one evaluation of the while condition and, if it holds, of the loop body
binary_search_with_bounds_iter(S, x, l, r) ==
    IF ~(l <= r) THEN Return(l, r, -1, {}, {})
    ELSE LET mid == binary_search_with_bounds_mid(l, r) IN
         IF ~InBounds(S, mid) THEN Raise(l, r, {mid}, {})
         ELSE LET mid_value == GetItem(S, mid) IN
              IF mid_value = x THEN Return(l, r, mid, {mid}, {})
              ELSE IF mid_value < x
                   THEN Continue(mid + 1, r, {mid}, {})
                   ELSE Continue(l, mid - 1, {mid}, {})

\* ------------------------------------------------------------------------
\* exponential_search

\* the indices read by: bound < length and sorted_collection[bound] < item
exponential_search_probe_reads(S, b) == IF b < Length(S) THEN {b} ELSE {}

\* bound < length and sorted_collection[bound] < item  (bound >= 1 here)
exponential_search_probe_flawed(S, x, b) == b < Length(S) /\ GetItem(S, b) <= x
exponential_search_probe(S, x, b) == b < Length(S) /\ GetItem(S, b) < x

\* left = bound >> 1
exponential_search_left_flawed(b) == b
exponential_search_left(b) == RShift1(b)

\* right = min(bound, length - 1)
exponential_search_right_flawed(S, b) == b
exponential_search_right(S, b) == Min(b, Length(S) - 1)

\* ------------------------------------------------------------------------
\* interpolation_search

\* if sorted_collection[left] == sorted_collection[right]
interpolation_search_equal_ends_flawed(S, l, r) == FALSE
interpolation_search_equal_ends(S, l, r) == GetItem(S, l) = GetItem(S, r)

\* sorted_collection[pos] < item decides which side is kept
interpolation_search_goes_right_flawed(pos_value, x) == pos_value > x
interpolation_search_goes_right(pos_value, x) == pos_value < x

\* left = pos + 1
interpolation_search_next_left_flawed(pos) == pos
interpolation_search_next_left(pos) == pos + 1

\* pos = left + int(((item - S[left]) * (right - left)) / d), then
\* pos = max(left, min(pos, right))
interpolation_search_pos(S, x, l, r, d) ==
    LET pos == l + IntTrueDiv((x - GetItem(S, l)) * (r - l), d) IN
    Max(l, Min(pos, r))

\* one evaluation of the while condition and, if it holds, of the loop body
interpolation_search_iter(S, x, l, r) ==
    IF ~(l <= r) THEN Return(l, r, -1, {}, {})
    ELSE IF ~InBounds(S, l) THEN Raise(l, r, {l}, {})
    ELSE IF ~(GetItem(S, l) <= x) THEN Return(l, r, -1, {l}, {})
    ELSE IF ~InBounds(S, r) THEN Raise(l, r, {l, r}, {})
    ELSE IF ~(x <= GetItem(S, r)) THEN Return(l, r, -1, {l, r}, {})
    ELSE IF interpolation_search_equal_ends(S, l, r)
         THEN Return(l, r, IF GetItem(S, l) = x THEN l ELSE -1, {l, r}, {})
    ELSE LET d == GetItem(S, r) - GetItem(S, l) IN
         IF d = 0 THEN Raise(l, r, {l, r}, {d})
         ELSE LET pos == interpolation_search_pos(S, x, l, r, d) IN
              IF GetItem(S, pos) = x THEN Return(l, r, pos, {l, r, pos}, {d})
              ELSE IF interpolation_search_goes_right(GetItem(S, pos), x)
                   THEN Continue(interpolation_search_next_left(pos), r, {l, r, pos}, {d})
                   ELSE Continue(l, pos - 1, {l, r, pos}, {d})

\* ------------------------------------------------------------------------
\* State machine

Init ==
    /\ sorted_collection \in Collections
    /\ item \in Items
    /\ fn \in Functions
    /\ argLeft \in (IF fn = "binary_search_with_bounds"
                    THEN -1..Len(sorted_collection) ELSE {0})
    /\ argRight \in (IF fn = "binary_search_with_bounds"
                     THEN {<<>>} \cup {<<r>> : r \in -1..Len(sorted_collection)}
                     ELSE {<<>>})
    /\ pc = "call"
    /\ left = 0 /\ right = 0 /\ bound = 0 /\ low = 0 /\ high = 0
    /\ result = 0
    /\ reads = {}
    /\ divisors = {}

Args == <<fn, sorted_collection, item, argLeft, argRight>>

\* the effect of one loop iteration with outcome o in the loop at position p
Apply(o, p) ==
    /\ pc' = IF o.kind = "loop" THEN p ELSE o.kind
    /\ left' = o.left
    /\ right' = o.right
    /\ result' = o.result
    /\ reads' = reads \cup o.reads
    /\ divisors' = divisors \cup o.divs

binary_search_enter ==
    /\ pc = "call" /\ fn = "binary_search"
    /\ left' = 0
    /\ right' = Length(sorted_collection) - 1
    /\ low' = left' /\ high' = right'
    /\ pc' = "binary_search_loop"
    /\ UNCHANGED <<Args, bound, result, reads, divisors>>

binary_search_loop ==
    /\ pc = "binary_search_loop"
    /\ Apply(binary_search_iter(sorted_collection, item, left, right), "binary_search_loop")
    /\ UNCHANGED <<Args, bound, low, high>>

binary_search_with_bounds_enter ==
    /\ pc = "call" /\ fn = "binary_search_with_bounds"
    /\ left' = argLeft
    /\ right' = binary_search_with_bounds_right(sorted_collection, argRight)
    /\ low' = left' /\ high' = right'
    /\ pc' = "binary_search_with_bounds_loop"
    /\ UNCHANGED <<Args, bound, result, reads, divisors>>

\* also runs the call exponential_search delegates to
binary_search_with_bounds_loop ==
    /\ pc = "binary_search_with_bounds_loop"
    /\ Apply(binary_search_with_bounds_iter(sorted_collection, item, left, right),
             "binary_search_with_bounds_loop")
    /\ UNCHANGED <<Args, bound, low, high>>

exponential_search_enter ==
    /\ pc = "call" /\ fn = "exponential_search"
    /\ IF sorted_collection = <<>>
       THEN /\ pc' = "done"
            /\ result' = -1
            /\ UNCHANGED bound
       ELSE /\ pc' = "exponential_search_loop"
            /\ bound' = 1
            /\ UNCHANGED result
    /\ UNCHANGED <<Args, left, right, low, high, reads, divisors>>

\* one evaluation of the doubling loop's condition: double bound, or leave the
\* loop and call binary_search_with_bounds(sorted_collection, item, left, right)
exponential_search_loop ==
    /\ pc = "exponential_search_loop"
    /\ reads' = reads \cup exponential_search_probe_reads(sorted_collection, bound)
    /\ IF exponential_search_probe(sorted_collection, item, bound)
       THEN /\ bound' = LShift1(bound)
            /\ UNCHANGED <<pc, left, right, low, high>>
       ELSE /\ left' = exponential_search_left(bound)
            /\ right' = binary_search_with_bounds_right(
                            sorted_collection,
                            <<exponential_search_right(sorted_collection, bound)>>)
            /\ low' = left' /\ high' = right'
            /\ pc' = "binary_search_with_bounds_loop"
            /\ UNCHANGED bound
    /\ UNCHANGED <<Args, result, divisors>>

interpolation_search_enter ==
    /\ pc = "call" /\ fn = "interpolation_search"
    /\ left' = 0
    /\ right' = Length(sorted_collection) - 1
    /\ low' = left' /\ high' = right'
    /\ pc' = "interpolation_search_loop"
    /\ UNCHANGED <<Args, bound, result, reads, divisors>>

interpolation_search_loop ==
    /\ pc = "interpolation_search_loop"
    /\ Apply(interpolation_search_iter(sorted_collection, item, left, right),
             "interpolation_search_loop")
    /\ UNCHANGED <<Args, bound, low, high>>

Next ==
    \/ binary_search_enter
    \/ binary_search_loop
    \/ binary_search_with_bounds_enter
    \/ binary_search_with_bounds_loop
    \/ exponential_search_enter
    \/ exponential_search_loop
    \/ interpolation_search_enter
    \/ interpolation_search_loop

Spec == Init /\ [][Next]_vars

\* Every started call is run on: nothing suspends or cancels it.
FairSpec == Spec /\ WF_vars(Next)

\* ------------------------------------------------------------------------
\* Properties

Returned == pc = "done"
Raised == pc = "raised"
Occurs(S, x) == \E i \in 1..Len(S) : S[i] = x
\* r is a 0-based index of S whose element is x
Hit(S, x, r) == 0 <= r /\ r < Len(S) /\ S[r + 1] = x
FirstIndex(S, x) == CHOOSE i \in 0..(Len(S) - 1) :
                        S[i + 1] = x /\ \A j \in 0..(i - 1) : S[j + 1] # x
\* S[lo..hi] of the 0-based code
Slice(S, lo, hi) == SubSeq(S, lo + 1, hi + 1)
ExplicitBounds == fn = "binary_search_with_bounds" /\ argRight # <<>>
DefaultBounds == fn = "binary_search_with_bounds" /\ argLeft = 0 /\ argRight = <<>>
BoundsInRange == 0 <= low /\ high <= Len(sorted_collection) - 1

\* C1: on a non-decreasing list binary_search returns an index of the item
\* when the item occurs, and -1 when it does not (and it never raises).
C1_BinarySearchCorrect ==
    (fn = "binary_search" /\ Sorted(sorted_collection)) =>
        /\ ~Raised
        /\ Returned =>
              IF Occurs(sorted_collection, item)
              THEN Hit(sorted_collection, item, result)
              ELSE result = -1
C1_Witness ==
    /\ fn = "binary_search" /\ Returned /\ Sorted(sorted_collection)
    /\ Len(sorted_collection) >= 3 /\ result = 2 /\ Cardinality(reads) >= 2

\* C2: with 0 <= low <= high <= len-1 on a non-decreasing list,
\* binary_search_with_bounds returns -1 exactly when binary_search on the
\* slice S[low..high] does, and otherwise low + that index.
C2_BoundsEqualsSlice ==
    (fn = "binary_search_with_bounds" /\ pc # "call" /\ Sorted(sorted_collection)
        /\ BoundsInRange /\ low <= high) =>
        /\ ~Raised
        /\ Returned =>
              LET b == binary_search(Slice(sorted_collection, low, high), item) IN
              IF b = -1 THEN result = -1 ELSE result = low + b
C2_Witness ==
    /\ ExplicitBounds /\ Returned /\ Sorted(sorted_collection)
    /\ 0 < low /\ low < high /\ high < Len(sorted_collection) - 1
    /\ Occurs(sorted_collection, item) /\ result = -1

\* C3: on a non-decreasing list exponential_search and binary_search agree on
\* found/not-found, and an index either returns holds the item.
C3_ExponentialAgrees ==
    (fn = "exponential_search" /\ Sorted(sorted_collection)) =>
        /\ ~Raised
        /\ Returned =>
              LET b == binary_search(sorted_collection, item) IN
              /\ (result = -1) <=> (b = -1)
              /\ result # -1 => Hit(sorted_collection, item, result)
              /\ b # -1 => Hit(sorted_collection, item, b)
C3_Witness ==
    /\ fn = "exponential_search" /\ Returned /\ Sorted(sorted_collection)
    /\ result >= 0 /\ Cardinality(reads) >= 2
    /\ result # binary_search(sorted_collection, item)

\* C4: on a non-decreasing list of integers interpolation_search returns -1
\* exactly when the item is absent, otherwise an index holding the item, and so
\* agrees with binary_search on found/not-found.
C4_InterpolationAgrees ==
    (fn = "interpolation_search" /\ Sorted(sorted_collection)) =>
        /\ ~Raised
        /\ Returned =>
              /\ (result = -1) <=> ~Occurs(sorted_collection, item)
              /\ result # -1 => Hit(sorted_collection, item, result)
              /\ (result = -1) <=> (binary_search(sorted_collection, item) = -1)
C4_Witness ==
    /\ fn = "interpolation_search" /\ Returned /\ Sorted(sorted_collection)
    /\ divisors # {} /\ result >= 0
    /\ result # binary_search(sorted_collection, item)

\* C5: when the item occurs more than once in a non-decreasing list,
\* binary_search, binary_search_with_bounds with default bounds and
\* exponential_search return the index of its first occurrence.
C5_FirstOccurrence ==
    (/\ fn = "binary_search" \/ DefaultBounds \/ fn = "exponential_search"
     /\ Returned /\ Sorted(sorted_collection)
     /\ Cardinality({i \in 1..Len(sorted_collection) : sorted_collection[i] = item}) > 1) =>
        result = FirstIndex(sorted_collection, item)

\* C6: with explicit bounds low > high, binary_search_with_bounds reads no
\* element, does not raise and returns -1, wherever low and high lie.
C6_EmptyRange ==
    (ExplicitBounds /\ pc # "call" /\ argLeft > argRight[1]) =>
        /\ ~Raised
        /\ reads = {}
        /\ Returned => result = -1
C6_Witness ==
    /\ ExplicitBounds /\ Returned /\ result = -1 /\ reads = {}
    /\ sorted_collection # <<>> /\ Occurs(sorted_collection, item)
    /\ argLeft = Len(sorted_collection) /\ argRight = <<-1>>

\* C7: in interpolation_search, on any list, every divisor of the position
\* estimate is strictly positive, so the division never raises.
C7_DivisorPositive ==
    fn = "interpolation_search" =>
        /\ ~Raised
        /\ \A d \in divisors : d > 0
C7_Witness ==
    /\ fn = "interpolation_search" /\ ~Sorted(sorted_collection)
    /\ divisors # {} /\ pc = "interpolation_search_loop"

\* C8: in exponential_search on a non-empty non-decreasing list, the range
\* [low, high] handed to binary_search_with_bounds is [bound>>1,
\* min(bound, len-1)], lies in the list, has only smaller elements below it and
\* only elements >= item above it, and so holds the item if the list does.
C8_HandedRange ==
    (/\ fn = "exponential_search" /\ Sorted(sorted_collection)
     /\ pc \in {"binary_search_with_bounds_loop", "done", "raised"}
     /\ sorted_collection # <<>>) =>
        LET S == sorted_collection
            n == Len(sorted_collection) IN
        /\ low = bound \div 2
        /\ high = IF bound <= n - 1 THEN bound ELSE n - 1
        /\ 0 <= low /\ low <= high /\ high <= n - 1
        /\ \A i \in 0..(low - 1) : S[i + 1] < item
        /\ \A i \in (high + 1)..(n - 1) : S[i + 1] >= item
        /\ bound < n => S[high + 1] >= item
        /\ Occurs(S, item) => \E i \in low..high : S[i + 1] = item
C8_Witness ==
    /\ fn = "exponential_search" /\ Sorted(sorted_collection)
    /\ pc = "binary_search_with_bounds_loop" /\ reads = {1, 2}
    /\ low = 1 /\ high = 2 /\ left = low /\ right = high
    /\ Occurs(sorted_collection, item)

\* C9: every call terminates on any list: an iteration of a bisection or
\* interpolation loop that does not leave the loop strictly decreases
\* right - left, a doubling step happens only while bound < len and strictly
\* increases bound, and the call eventually returns (a call of
\* binary_search_with_bounds with out-of-range bounds may raise instead).
C9_LoopStep ==
    /\ (pc \in {"binary_search_loop", "binary_search_with_bounds_loop",
                "interpolation_search_loop"} /\ pc' = pc) =>
            right' - left' < right - left
    /\ (pc = "exponential_search_loop" /\ pc' = pc) =>
            bound < Len(sorted_collection) /\ bound' > bound
C9_InRangeCall ==
    fn = "binary_search_with_bounds" =>
        /\ 0 <= argLeft
        /\ argRight # <<>> => argRight[1] <= Len(sorted_collection) - 1
C9_Terminates ==
    /\ [][C9_LoopStep]_vars
    /\ <>(Returned \/ (Raised /\ ~C9_InRangeCall))
C9_Witness ==
    /\ fn = "interpolation_search" /\ ~Sorted(sorted_collection)
    /\ Returned /\ Cardinality(reads) >= 3 /\ right - left < high - low - 1

\* C10: on any list every index read by binary_search, exponential_search and
\* interpolation_search is in [0, len-1]; binary_search_with_bounds called with
\* 0 <= low and high <= len-1 keeps its cursors and reads within [low, high];
\* no such call raises, and a returned value is -1 or an index of that range
\* holding the item.
C10_AccessesInRange ==
    LET S == sorted_collection IN
    /\ fn \in {"binary_search", "exponential_search", "interpolation_search"} =>
          /\ ~Raised
          /\ reads \subseteq 0..(Len(S) - 1)
          /\ Returned => (result = -1 \/ Hit(S, item, result))
    /\ (fn = "binary_search_with_bounds" /\ pc # "call" /\ BoundsInRange) =>
          /\ ~Raised
          /\ reads \subseteq low..high
          /\ pc = "binary_search_with_bounds_loop" =>
                (low <= left /\ right <= high /\ reads \cap (left..right) = {})
          /\ Returned =>
                (result = -1 \/ (low <= result /\ result <= high
                                 /\ S[result + 1] = item))
C10_Witness ==
    /\ fn = "binary_search_with_bounds" /\ ~Sorted(sorted_collection)
    /\ Returned /\ BoundsInRange /\ 0 < low /\ low < high
    /\ Cardinality(reads) >= 2 /\ result = -1
    /\ Occurs(sorted_collection, item)
====
